---- MODULE Spec2Model ----
(***************************************************************************)
(* A model of python-easy-ftp (src/easy_ftp.py): the retry and timeout     *)
(* decorators, and the FTP facade (constructor, setup, login, close,       *)
(* list_contents, get_file_size, download_file) built on them.             *)
(*                                                                         *)
(* The specifications of the module:                                       *)
(*   SpecRetry  the retry decorator applied to an arbitrary function;      *)
(*   Spec       one FTP facade instance driven by a caller;                *)
(*   SpecNew    the constructor of the facade;                             *)
(*   SpecList   login, close and the listings of the facade;               *)
(*   SpecTwo    the timeout decorator used by two instances at once;       *)
(*   SpecParse  FtpEntry and get_entries on the lines of a listing.        *)
(***************************************************************************)
EXTENDS Integers, Sequences, FiniteSets, TLC

(***************************************************************************)
(* Bounds of the model.                                                    *)
(***************************************************************************)
\* largest number_of_retries given to the retry decorator under SpecRetry
MaxRetries == 3
\* largest sleep_factor given to the retry decorator under SpecRetry
MaxSleepFactor == 1
\* how many calls of the decorated function one behaviour of SpecRetry makes
MaxCalls == 2
\* largest number_of_retries an FTP instance is constructed with under Spec
MaxFtpRetries == 1
\* how many requests the network fails in one behaviour of Spec
MaxFaults == 2
\* how many operations the caller starts on the instance after constructing it
MaxOps == 1
\* largest size of a file
MaxSize == 1
\* longest time the caller lets pass before it starts an operation
MaxIdle == 1
\* SpecTwo: latest time on the clock of the process
MaxTwoTime == 3
\* SpecList: largest number_of_retries of the instance
MaxListRetries == 2
\* SpecParse: most words in one line of a listing
MaxFields == 12
\* SpecParse: most lines in one listing
MaxLines == 2

(***************************************************************************)
(* Exceptions.  An exception value records its class, its argument (for an *)
(* error of the wrapped function: the number of the attempt that raised    *)
(* it, which tells two errors of one call apart) and the exception it      *)
(* carries, <<>> when it carries none.                                     *)
(***************************************************************************)
NoExc == [type |-> "none", arg |-> 0, cause |-> <<>>]

Exc(type, arg) == [type |-> type, arg |-> arg, cause |-> <<>>]

\* the classes of error a decorated function raises: socket.error (the
\* session is gone), TimeoutError (raised by the timeout decorator's alarm
\* handler) and any other Exception (ftplib.error_temp, urllib2.URLError, ...)
FunctionErrors == {"socket.error", "TimeoutError", "Exception"}

\* mutant of IsSocketError: the socket.error clause is missing, so the error
\* is handled by the generic clause
IsSocketError_never(e) == FALSE

\* `except socket.error, e` of retry.inner
IsSocketError(e) == e.type = "socket.error"

\* mutant of RetryContinue: the loop makes one attempt too few
RetryContinue_offbyone(cnt, n) == cnt < n

\* `while counter <= number_of_retries` of retry.inner
RetryContinue(cnt, n) == cnt <= n

\* mutant of NoRetry: retry.wrapper returns inner for every number_of_retries
NoRetry_never(n) == FALSE

\* `if number_of_retries in (None, 0): return function` of retry.wrapper
NoRetry(n) == n = 0

\* sleeptime = sleep_factor * counter + (sleep_factor * (counter-1) * 10)
Sleeptime(sf, cnt) == sf * cnt + (sf * (cnt - 1) * 10)

\* mutant of RetryError: the message is formatted with the loop counter
\* instead of number_of_retries
RetryError_counter(n, cnt) == Exc("RetryError", cnt)

\* raise RetryError("Retry: Failed %i times."%(number_of_retries)): the
\* exception is built from number_of_retries alone
RetryError(n, cnt) == Exc("RetryError", n)

(***************************************************************************)
(* State of SpecRetry: one function decorated with                         *)
(* @retry(number_of_retries, sleep_factor) and the call of it in progress. *)
(***************************************************************************)
VARIABLES
    number_of_retries,  \* argument of retry()
    sleep_factor,       \* argument of retry()
    rpc,                \* position of the call: "idle", "loop", "call", "plain", "done"
    counter,            \* local of retry.inner
    attempts,           \* what every invocation of the function did, in order
    sleeps,             \* the time.sleep() calls of retry.inner, in order
    outcome,            \* how the call ended: [kind, val, exc]
    calls               \* number of calls made so far

retryVars == <<number_of_retries, sleep_factor, rpc, counter, attempts, sleeps, outcome, calls>>

(***************************************************************************)
(* State of Spec: one FTP instance, the call stack of the operation in     *)
(* progress on it, the clock and the process's alarm, the server           *)
(* connections it opened and the local files of a download.                *)
(***************************************************************************)
VARIABLES
    self_number_of_retries,   \* FTP._number_of_retries
    self_timeout_seconds,     \* FTP._timeout_seconds
    self_cooldown_seconds,    \* FTP._cooldown_seconds, 0 for None
    self_cooldown_timestamp,  \* FTP._cooldown_timestamp, 0 for None
    self_ftp,                 \* FTP.ftp: the connection handle, 0 while the attribute is unset
    stack,                    \* the frames of the functions being executed, innermost last
    exc,                      \* the exception being propagated, NoExc when none is
    ret,                      \* what the function that returned last returned
    now,                      \* time.time(), in whole seconds
    alarm,                    \* when the SIGALRM set by signal.alarm() is due, 0 when none is set
    opened,                   \* number of connections ftplib.FTP(host) has opened
    live,                     \* the connections opened and not closed
    remote,                   \* the remote file: [exists, size]
    dest,                     \* the file at destination_filename
    tmp,                      \* the file at destination_filename + ".tmp"
    faults,                   \* number of failures the network has produced
    ops,                      \* number of operations the caller has started
    result,                   \* how the caller's last operation ended
    lastAct,                  \* the latest network action and the end of the one before it
    loginLog,                 \* the latest attempt of _login
    dl,                       \* bookkeeping of the caller's download_file call in progress
    login_dir,                \* the directory the server puts a session in when it logs in
    collector,                \* how the runtime reclaims objects: "counting" or "tracing"
    wd,                       \* the working directory of the session behind FTP.ftp
    obs                       \* bookkeeping of the caller's listing and close calls

\* what is fixed when the instance is constructed: its arguments, the server
\* it is given and the runtime it runs on
cfgVars == <<self_number_of_retries, self_timeout_seconds, self_cooldown_seconds, login_dir,
             collector>>

ftpVars == <<cfgVars, self_cooldown_timestamp, self_ftp, stack, exc, ret, now, alarm,
             opened, live, remote, dest, tmp, faults, ops, result, lastAct, loginLog, dl,
             wd, obs>>

(***************************************************************************)
(* State of SpecTwo: two FTP instances whose decorated functions run       *)
(* concurrently in one process, and the one alarm of that process.         *)
(***************************************************************************)
VARIABLES
    instances,   \* per instance: where its decorated call is, and how the last one ended
    process      \* the process: its clock, its alarm, who set it, how the instances are scheduled

twoVars == <<instances, process>>

(***************************************************************************)
(* State of SpecParse: a listing as the server sends it, line by line, and *)
(* FtpEntry and get_entries applied to it.                                 *)
(***************************************************************************)
VARIABLES
    content_line,    \* the line the server is sending, or the line given to FtpEntry
    content_lines,   \* the lines list_contents returned
    parse_pc,        \* "listing", "parsed" (FtpEntry is over), "loop" (get_entries), "returned", "raised"
    line_no,         \* get_entries: the line the loop is at
    entries,         \* get_entries: the entries appended so far
    entry,           \* what FtpEntry(content_line, remote_dir) did
    parse_exc        \* the exception that left get_entries, "" when none did

parseVars == <<content_line, content_lines, parse_pc, line_no, entries, entry, parse_exc>>

\* what the actions of the facade leave alone: the state of the other
\* specifications
otherVars == <<retryVars, twoVars, parseVars>>

vars == <<retryVars, ftpVars, twoVars, parseVars>>

(***************************************************************************)
(* Values of the facade's state.                                           *)
(***************************************************************************)
\* time.sleep(60) of FTP.setup
SetupSleepSeconds == 60

\* time.sleep(timeout_seconds * 5) of FTP.download_file
DownloadSleepFactor == 5

\* sleep_factor of the decorators of the facade: retry(self._number_of_retries)
\* leaves it at its default
DefaultSleepFactor == 1

\* the clock when the instance is constructed (any time after the epoch)
StartTime == 1

\* the number_of_retries the instance may be constructed with
RetryChoices == 0..MaxFtpRetries

\* the timeout_seconds the instance may be constructed with
TimeoutChoices == {0, 2}

\* the cooldown_seconds the instance may be constructed with (0: None)
CooldownChoices == {0, 3}

Max(a, b) == IF a >= b THEN a ELSE b

\* return values: None, a boolean (download), a size (get_file_size), or
\* the lines of a listing
RetNone == [k |-> "none", b |-> FALSE, n |-> 0]

RetBool(b) == [k |-> "bool", b |-> b, n |-> 0]

RetSize(n) == [k |-> "size", b |-> FALSE, n |-> n]

RetLines == [k |-> "lines", b |-> FALSE, n |-> 0]

\* a local file: whether os.path.isfile() holds of it, os.path.getsize(), and
\* who wrote it: "old" (it was there before), "url" (download_using_urllib2),
\* "ftp" (download_using_ftplib)
Absent == [exists |-> FALSE, size |-> 0, src |-> "none"]

File(size, src) == [exists |-> TRUE, size |-> size, src |-> src]

\* a frame of the call stack: the function p, the position pc in it, and its
\* locals: secs (the argument handed to @timeout when the function defined
\* its inner function), cnt (counter of retry.inner), fn (the function a
\* decorator frame wraps), a (the remote_path argument of the listing
\* functions: "none" for None, "empty" for the empty string, "path" for a
\* relative path), prev (prev_remote_working_dir of _list_contents) and rp
\* (the remote_path that replaced None)
Frame(p, pc) ==
    [p |-> p, pc |-> pc, secs |-> 0, cnt |-> 0, fn |-> "", a |-> "", prev |-> <<>>, rp |-> <<>>]

Top == stack[Len(stack)]

At(p, pc) == Len(stack) > 0 /\ Top.p = p /\ Top.pc = pc

Goto(pc) == [stack EXCEPT ![Len(stack)].pc = pc]

\* call f and continue at pc when it is over
Call(f, pc) == Append(Goto(pc), f)

Pop == SubSeq(stack, 1, Len(stack) - 1)

\* `return f(...)` as the last statement: what f returns or raises is what
\* the caller of this function gets
TailCall(f) == Append(Pop, f)

\* the runtimes the package may run on: CPython counts references, PyPy and
\* Jython trace
Collectors == {"counting", "tracing"}

\* directories, as the sequence of their names from the top: no directory,
\* the root path of the address given to the constructor, and the server's
\* directory for new sessions when that is another one
NoDir == <<>>

RootPath == <<"root">>

HomeDir == <<"home">>

LoginDirs == {RootPath, HomeDir}

\* the directory a relative remote_path names in working directory d
Relative(d) == Append(d, "sub")

\* the directory self.ftp.cwd(remote_path) of _list_contents changes to
\* from working directory d, for a frame f of _list_contents
CwdTarget(f, d) == IF f.a = "none" THEN f.rp ELSE Relative(d)

\* bookkeeping of a listing the caller started: arg (its remote_path), wd0
\* (the working directory when it was called), listed (the directory the
\* latest LIST that was served listed); and of the latest call of
\* list_contents: inv (the calls it made of the decorated _list_contents),
\* relogin (the calls it made of login); and of the latest call of close: quit
\* and hard (how its two steps went, "" for a step not made), close (how the
\* call ended); and of the latest call of setup: setupCalls (the calls it made
\* of the decorated _setup), setupFirst (how the first of them ended: "" while
\* it has not, "none" or the class of its exception), setupSleeps and
\* setupSlept (the sleeps setup made, and the seconds the latest one lasted)
NoObs == [arg |-> "", wd0 |-> NoDir, listed |-> NoDir, inv |-> 0, relogin |-> 0,
          quit |-> "", hard |-> "", close |-> "",
          setupCalls |-> 0, setupFirst |-> "", setupSleeps |-> 0, setupSlept |-> 0]

NoResult == [op |-> "none", kind |-> "none", val |-> RetNone, exc |-> NoExc]

NoAct == [kind |-> "none", start |-> 0, end |-> 0, prevEnd |-> 0]

NoLogin == [n |-> 0, end |-> 0, stamp |-> 0, exc |-> NoExc]

\* bookkeeping of a download_file call of the caller: started (a download
\* was called before), active (the latest operation is a download), dest0
\* (the destination when it was called), precheck (what the comparison of
\* the sizes at the start of the outermost invocation found: "equal",
\* "differs", "raised", or "none"), urlCalls and retrCalls (transfers
\* started by either transport), depth (recursive invocations made),
\* socketErrors (times download_using_ftplib ended with socket.error),
\* fatalConn (the handle whose RETR raised socket.error last, 0 for none),
\* retrOnFatal (a later RETR was sent on that handle), moved (renames done),
\* urlInv and ftpInv (calls of the decorated download_using_urllib2 and
\* download_using_ftplib), urlFails (calls of download_using_urllib2 that
\* did not return True), urlExc (the class of the exception that ended the
\* latest of them, "none" when it returned)
NoDownload ==
    [started |-> FALSE, active |-> FALSE, dest0 |-> Absent, precheck |-> "none",
     urlCalls |-> 0, retrCalls |-> 0, depth |-> 0, socketErrors |-> 0,
     fatalConn |-> 0, retrOnFatal |-> FALSE, moved |-> 0,
     urlInv |-> 0, ftpInv |-> 0, urlFails |-> 0, urlExc |-> "none"]

\* the two instances of SpecTwo
Instances == {"A", "B"}

\* the instance whose calls are made by the main thread, when each instance
\* has a thread of its own
MainThread == "A"

\* the deadlines a decorated function of an instance may be given:
\* @timeout(0) leaves the function undecorated
TwoDeadlines == {0, 1, 2}

\* an instance that has made no call yet: pc is "idle", "arm" (timeout.inner
\* entered) or "body" (the function is running); secs is the argument of
\* @timeout; due is when the alarm it set is due, 0 when it set none; last
\* is how its last call ended and armedBy the instance whose alarm ended it
NoCall == [pc |-> "idle", secs |-> 0, due |-> 0, last |-> "none", armedBy |-> "none"]

\* the process before any call: no alarm is pending
NoProcess == [now |-> 0, alarm |-> 0, owner |-> "none", sched |-> "threads"]

\* the state of SpecTwo while another specification is studied
TwoIdle ==
    /\ instances = [i \in Instances |-> NoCall]
    /\ process = NoProcess

\* a line of a listing: whether it starts with whitespace, and its words (the
\* maximal runs of characters that are not whitespace), in order
Line(lead, words) == [lead |-> lead, words |-> words]

EmptyLine == Line(FALSE, <<>>)

\* FtpEntry has not been called
NoEntry == [ok |-> FALSE, exc |-> "", owner |-> "", group |-> "", size |-> 0,
            name |-> <<>>, type |-> ""]

\* the state of SpecParse while another specification is studied
ParseIdle ==
    /\ content_line = EmptyLine
    /\ content_lines = <<>>
    /\ parse_pc = "listing"
    /\ line_no = 0
    /\ entries = <<>>
    /\ entry = NoEntry
    /\ parse_exc = ""

\* the facade's part of the state while only the retry decorator is studied
FtpIdle ==
    /\ self_number_of_retries = 0
    /\ self_timeout_seconds = 0
    /\ self_cooldown_seconds = 0
    /\ self_cooldown_timestamp = 0
    /\ self_ftp = 0
    /\ stack = <<>>
    /\ exc = NoExc
    /\ ret = RetNone
    /\ now = StartTime
    /\ alarm = 0
    /\ opened = 0
    /\ live = {}
    /\ remote = Absent
    /\ dest = Absent
    /\ tmp = Absent
    /\ faults = 0
    /\ ops = 0
    /\ result = NoResult
    /\ lastAct = NoAct
    /\ loginLog = NoLogin
    /\ dl = NoDownload
    /\ login_dir = RootPath
    /\ collector = "counting"
    /\ wd = NoDir
    /\ obs = NoObs

(***************************************************************************)
(* The cooldown of the facade, the timeout decorator's alarm, and what     *)
(* the network does to one request.                                        *)
(***************************************************************************)
\* FTP._cooldown_get_seconds_since_last_timestamp
SecondsSinceLast ==
    IF self_cooldown_timestamp # 0 THEN now - self_cooldown_timestamp ELSE 0

\* the seconds FTP._cooldown sleeps: 0 when it does not sleep
CooldownSleeptime ==
    IF self_cooldown_seconds # 0 /\ self_cooldown_timestamp # 0
    THEN Max(0, self_cooldown_seconds - SecondsSinceLast)
    ELSE 0

\* FTP._cooldown_set_timestamp, as the new value of _cooldown_timestamp when
\* the clock shows t
Stamped(t) == IF self_cooldown_seconds # 0 THEN t ELSE self_cooldown_timestamp

\* the argument of @timeout(...) in setup, login, list_contents and
\* download_file, evaluated when the enclosing method defines its function
TimeoutArgument(timeout_seconds) == timeout_seconds + SecondsSinceLast

\* `if seconds in (None, 0): return function` of timeout.wrapper
NoTimeout(seconds) == seconds = 0

\* time.sleep(d) with the alarm of the timeout decorator pending: the sleep
\* ends at now + d, unless SIGALRM is due by then: the handler then raises
\* TimeoutError out of the sleep
Sleep(d) ==
    IF d > 0 /\ alarm # 0 /\ alarm <= now + d
    THEN [now |-> Max(now, alarm), fired |-> TRUE]
    ELSE [now |-> now + d, fired |-> FALSE]

\* what the network may do to one request: serve it at once, fail it with
\* socket.error or with another exception, or keep it waiting until SIGALRM
\* is due
NetOutcomes ==
    {"ok"} \cup
    IF faults < MaxFaults
    THEN {"socket.error", "Exception"} \cup (IF alarm # 0 THEN {"TimeoutError"} ELSE {})
    ELSE {}

\* what a request on the current handle may do: after self.ftp.close() the
\* handle has no socket, and the request raises AttributeError before
\* anything is sent
SessionOutcomes == IF self_ftp \in live THEN NetOutcomes ELSE {"AttributeError"}

\* the exception of outcome o of a request
NetExc(o) ==
    IF o = "ok" THEN NoExc
    ELSE IF o = "AttributeError" THEN Exc(o, 0)
    ELSE Exc(o, faults + 1)

\* the clock after a request with outcome o
NetEnd(o) == IF o = "TimeoutError" THEN Max(now, alarm) ELSE now

\* the alarm after a request with outcome o: a delivered SIGALRM is spent
NetAlarm(o) == IF o = "TimeoutError" THEN 0 ELSE alarm

NetFaults(o) == IF o \in {"ok", "AttributeError"} THEN faults ELSE faults + 1

\* the record of a request of the given kind with outcome o; a request that
\* raised AttributeError was never sent
NetAct(kind, o) ==
    IF o = "AttributeError" THEN lastAct
    ELSE [kind |-> kind, start |-> now, end |-> NetEnd(o), prevEnd |-> lastAct.end]


NoOutcome == [kind |-> "none", val |-> FALSE, exc |-> NoExc]

Returned(v) == [kind |-> "return", val |-> v, exc |-> NoExc]

Raised(e) == [kind |-> "raise", val |-> FALSE, exc |-> e]

\* an invocation of the function: it returned val, or raised exc
AttemptOk(v) == [ok |-> TRUE, val |-> v, exc |-> NoExc]

AttemptFailed(e) == [ok |-> FALSE, val |-> FALSE, exc |-> e]

RetryInit ==
    /\ number_of_retries \in 0..MaxRetries
    /\ sleep_factor \in 0..MaxSleepFactor
    /\ rpc = "idle"
    /\ counter = 0
    /\ attempts = <<>>
    /\ sleeps = <<>>
    /\ outcome = NoOutcome
    /\ calls = 0
    /\ FtpIdle
    /\ TwoIdle
    /\ ParseIdle

\* the caller calls the decorated function: retry.wrapper returned either the
\* function itself or retry.inner, which starts with counter = 1
RetryCall ==
    /\ rpc \in {"idle", "done"}
    /\ calls < MaxCalls
    /\ calls' = calls + 1
    /\ rpc' = IF NoRetry(number_of_retries) THEN "plain" ELSE "loop"
    /\ counter' = 1
    /\ attempts' = <<>>
    /\ sleeps' = <<>>
    /\ outcome' = NoOutcome
    /\ UNCHANGED <<number_of_retries, sleep_factor, ftpVars, twoVars, parseVars>>

\* the undecorated function runs once; what it does is what the caller gets
RetryPlain ==
    /\ rpc = "plain"
    /\ \E a \in {AttemptOk(v) : v \in BOOLEAN}
               \cup {AttemptFailed(Exc(t, Len(attempts) + 1)) : t \in FunctionErrors} :
          /\ attempts' = Append(attempts, a)
          /\ outcome' = IF a.ok THEN Returned(a.val) ELSE Raised(a.exc)
    /\ rpc' = "done"
    /\ UNCHANGED <<number_of_retries, sleep_factor, counter, sleeps, calls, ftpVars, twoVars, parseVars>>

\* the loop test of retry.inner, and the raise after the loop
RetryLoop ==
    /\ rpc = "loop"
    /\ IF RetryContinue(counter, number_of_retries)
       THEN /\ rpc' = "call"
            /\ outcome' = outcome
       ELSE /\ rpc' = "done"
            /\ outcome' = Raised(RetryError(number_of_retries, counter))
    /\ UNCHANGED <<number_of_retries, sleep_factor, counter, attempts, sleeps, calls, ftpVars, twoVars, parseVars>>

\* one pass of the try statement of retry.inner
RetryAttempt ==
    /\ rpc = "call"
    /\ \E a \in {AttemptOk(v) : v \in BOOLEAN}
               \cup {AttemptFailed(Exc(t, Len(attempts) + 1)) : t \in FunctionErrors} :
          /\ attempts' = Append(attempts, a)
          /\ IF a.ok
             THEN /\ outcome' = Returned(a.val)
                  /\ rpc' = "done"
                  /\ UNCHANGED <<counter, sleeps>>
             ELSE IF IsSocketError(a.exc)
             THEN /\ outcome' = Raised(a.exc)
                  /\ rpc' = "done"
                  /\ UNCHANGED <<counter, sleeps>>
             ELSE /\ sleeps' = IF sleep_factor > 0
                               THEN Append(sleeps, Sleeptime(sleep_factor, counter))
                               ELSE sleeps
                  /\ counter' = counter + 1
                  /\ rpc' = "loop"
                  /\ outcome' = outcome
    /\ UNCHANGED <<number_of_retries, sleep_factor, calls, ftpVars, twoVars, parseVars>>

RetryNext == RetryCall \/ RetryPlain \/ RetryLoop \/ RetryAttempt

SpecRetry == RetryInit /\ [][RetryNext]_vars

(***************************************************************************)
(* The operations of the facade, one action per step of each function.     *)
(* A frame at pc "end" has nothing left to do: it returns what its callee  *)
(* returned, or lets the callee's exception through.                       *)
(***************************************************************************)
sessVars == <<self_cooldown_timestamp, self_ftp, opened, live>>

fileVars == <<remote, dest, tmp>>

clockVars == <<now, alarm>>

logVars == <<ops, result, loginLog, dl>>

\* the new values of the control state
Ctl(s, e, r) == stack' = s /\ exc' = e /\ ret' = r

\* a request of the given kind is made and the network answers with o
Net(kind, o) ==
    /\ faults' = NetFaults(o)
    /\ now' = NetEnd(o)
    /\ alarm' = NetAlarm(o)
    /\ lastAct' = NetAct(kind, o)

\* where the body of each decorated function starts
StartPc(fn) ==
    CASE fn = "_setup" -> "connect"
      [] fn = "_login" -> "cool1"
      [] fn = "_list_contents" -> "pwd0"
      [] fn = "download_using_urllib2" -> "cool"
      [] fn = "download_using_ftplib" -> "rm"

\* the frame of fn decorated with @retry(self._number_of_retries) and
\* @timeout(secs), called with remote_path a
Wrapped(fn, secs, a) ==
    [Frame("wrap", "loop") EXCEPT !.fn = fn, !.secs = secs, !.cnt = 1, !.a = a]

\* the frame of a method that defines decorated functions on entry
Method(p, pc, a) ==
    [Frame(p, pc) EXCEPT !.secs = TimeoutArgument(self_timeout_seconds), !.a = a]

\* the open sockets after `self.ftp = ...` replaced the handle: nothing closes
\* the handle that is replaced, and its socket stays open until the runtime
\* collects the unreferenced object: at once where objects are reference
\* counted, and not while the calls followed here last where they are traced
Replacing == IF collector = "counting" THEN live \ {self_ftp} ELSE live

\* what self.setup() finds when it is called: a handle with an open socket,
\* or none; setup itself never looks, and the frames of the call carry it
HandleState == IF self_ftp \in live THEN "connected" ELSE "unconnected"

\* the part of the state that construction does not decide
FtpFresh ==
    /\ exc = NoExc
    /\ ret = RetNone
    /\ alarm = 0
    /\ remote = Absent
    /\ dest = Absent
    /\ tmp = Absent
    /\ faults = 0
    /\ ops = 0
    /\ dl = NoDownload
    /\ obs = NoObs
    /\ login_dir \in LoginDirs
    /\ number_of_retries = 0
    /\ sleep_factor = 0
    /\ rpc = "idle"
    /\ counter = 0
    /\ attempts = <<>>
    /\ sleeps = <<>>
    /\ outcome = NoOutcome
    /\ calls = 0
    /\ TwoIdle
    /\ ParseIdle

\* FTP.__init__ up to the call of self.setup(): the arguments are stored and
\* nothing has been sent yet
NewInit ==
    /\ self_number_of_retries \in RetryChoices
    /\ self_timeout_seconds \in TimeoutChoices
    /\ self_cooldown_seconds \in CooldownChoices
    /\ self_cooldown_timestamp = 0
    /\ self_ftp = 0
    /\ stack = << [Frame("caller", "wait") EXCEPT !.a = "__init__"],
                  Frame("__init__", "setup") >>
    /\ now = StartTime
    /\ opened = 0
    /\ live = {}
    /\ result = NoResult
    /\ lastAct = NoAct
    /\ loginLog = NoLogin
    /\ wd = NoDir
    /\ collector \in Collectors
    /\ FtpFresh

\* the clock when a constructor that met no failure returns: _login slept
\* the cooldown between its connect and its login
ConstructedAt == StartTime + self_cooldown_seconds

\* the timestamp the finally clause of _login left
ConstructedStamp == IF self_cooldown_seconds # 0 THEN ConstructedAt ELSE 0

\* the instance as a constructor that met no failure leaves it: _setup
\* opened connection 1, login closed it, _login opened connection 2, logged
\* in and set the timestamp, and the working directory was changed
Constructed(retries, collectors) ==
    /\ self_number_of_retries \in retries
    /\ collector \in collectors
    /\ self_timeout_seconds \in TimeoutChoices
    /\ self_cooldown_seconds \in CooldownChoices
    /\ self_cooldown_timestamp = ConstructedStamp
    /\ self_ftp = 2
    /\ stack = << [Frame("caller", "idle") EXCEPT !.a = "__init__"] >>
    /\ now = ConstructedAt
    /\ opened = 2
    /\ live = {2}
    /\ result = [op |-> "__init__", kind |-> "return", val |-> RetNone, exc |-> NoExc]
    /\ lastAct = [kind |-> "cwd", start |-> ConstructedAt, end |-> ConstructedAt,
                  prevEnd |-> ConstructedAt]
    /\ loginLog = [n |-> 1, end |-> ConstructedAt, stamp |-> ConstructedStamp,
                   exc |-> NoExc]
    /\ wd = RootPath
    /\ FtpFresh

\* Spec starts with a constructed instance, on the reference-counting runtime
FtpInit == Constructed(RetryChoices, {"counting"})

\* a function returns to its caller, or an exception leaves it
Return ==
    /\ Len(stack) > 0 /\ Top.pc = "end"
    /\ Ctl(Pop, exc, ret)
    /\ UNCHANGED <<otherVars, cfgVars, wd, obs, sessVars, fileVars, clockVars, logVars, faults, lastAct>>

\* ---- FTP.__init__ ----
\* self.setup()
InitSetup ==
    /\ At("__init__", "setup")
    /\ Ctl(Call(Method("setup", "try", HandleState), "cwd"), exc, ret)
    /\ UNCHANGED <<otherVars, cfgVars, wd, obs, sessVars, fileVars, clockVars, logVars, faults, lastAct>>

\* self.ftp.cwd(self.root_path); any error leaves the constructor
InitCwd ==
    /\ At("__init__", "cwd")
    /\ IF exc # NoExc
       THEN /\ Ctl(Pop, exc, ret)
            /\ UNCHANGED <<clockVars, faults, lastAct, wd>>
       ELSE \E o \in SessionOutcomes :
            /\ Net("cwd", o)
            /\ wd' = IF o = "ok" THEN RootPath ELSE wd
            /\ Ctl(Pop, NetExc(o), RetNone)
    /\ UNCHANGED <<otherVars, cfgVars, obs, sessVars, fileVars, logVars>>

\* ---- FTP.setup ----
\* try: _setup(self)
SetupTry ==
    /\ At("setup", "try")
    /\ Ctl(Call(Wrapped("_setup", Top.secs, Top.a), "except"), exc, ret)
    /\ obs' = [obs EXCEPT !.setupCalls = 1, !.setupFirst = "", !.setupSleeps = 0,
                          !.setupSlept = 0]
    /\ UNCHANGED <<otherVars, cfgVars, wd, sessVars, fileVars, clockVars, logVars, faults, lastAct>>

\* mutant of GraceRetry: the clause catches every Exception
GraceRetry_any(e) == TRUE

\* `except socket.error, e:` of setup
GraceRetry(e) == IsSocketError(e)

\* except socket.error: time.sleep(60); _setup(self)
SetupExcept ==
    /\ At("setup", "except")
    /\ IF exc # NoExc /\ GraceRetry(exc)
       THEN LET sl == Sleep(SetupSleepSeconds) IN
            /\ now' = sl.now
            /\ IF sl.fired
               THEN /\ alarm' = 0
                    /\ Ctl(Pop, Exc("TimeoutError", 0), ret)
                    /\ obs' = [obs EXCEPT !.setupFirst = exc.type,
                                          !.setupSleeps = obs.setupSleeps + 1,
                                          !.setupSlept = sl.now - now]
               ELSE /\ alarm' = alarm
                    /\ Ctl(TailCall(Wrapped("_setup", Top.secs, Top.a)), NoExc, ret)
                    /\ obs' = [obs EXCEPT !.setupFirst = exc.type,
                                          !.setupSleeps = obs.setupSleeps + 1,
                                          !.setupSlept = sl.now - now,
                                          !.setupCalls = obs.setupCalls + 1]
       ELSE /\ Ctl(Pop, exc, IF exc = NoExc THEN RetNone ELSE ret)
            /\ obs' = [obs EXCEPT !.setupFirst = exc.type]
            /\ UNCHANGED clockVars
    /\ UNCHANGED <<otherVars, cfgVars, wd, sessVars, fileVars, logVars, faults, lastAct>>

\* ---- the decorators: retry.inner around timeout.inner around the function ----
\* the loop test of retry.inner; timeout.inner sets the alarm and calls the
\* function; after the loop, RetryError
WrapLoop ==
    /\ At("wrap", "loop")
    /\ IF NoRetry(self_number_of_retries) \/ RetryContinue(Top.cnt, self_number_of_retries)
       THEN /\ alarm' = IF NoTimeout(Top.secs) THEN alarm ELSE now + Top.secs
            /\ Ctl(Call([Frame(Top.fn, StartPc(Top.fn)) EXCEPT !.a = Top.a], "ret"), exc, ret)
       ELSE /\ alarm' = alarm
            /\ Ctl(Pop, RetryError(self_number_of_retries, Top.cnt), ret)
    /\ UNCHANGED <<otherVars, cfgVars, wd, obs, sessVars, fileVars, now, logVars, faults, lastAct>>

\* the function is over: the finally of timeout.inner cancels the alarm, then
\* the return or the except clauses of retry.inner
WrapRet ==
    /\ At("wrap", "ret")
    /\ LET cancelled == IF NoTimeout(Top.secs) THEN alarm ELSE 0
           d == Sleeptime(DefaultSleepFactor, Top.cnt)
           due == d > 0 /\ cancelled # 0 /\ cancelled <= now + d
       IN  IF exc = NoExc \/ NoRetry(self_number_of_retries) \/ IsSocketError(exc)
           THEN /\ alarm' = cancelled
                /\ now' = now
                /\ Ctl(Pop, exc, ret)
           ELSE IF due
           THEN /\ alarm' = 0
                /\ now' = Max(now, cancelled)
                /\ Ctl(Pop, Exc("TimeoutError", 0), ret)
           ELSE /\ alarm' = cancelled
                /\ now' = now + d
                /\ Ctl([stack EXCEPT ![Len(stack)].pc = "loop",
                                     ![Len(stack)].cnt = Top.cnt + 1], NoExc, ret)
    /\ UNCHANGED <<otherVars, cfgVars, wd, obs, sessVars, fileVars, logVars, faults, lastAct>>

\* ---- FTP.setup._setup ----
\* self.ftp = ftplib.FTP(self.host): the handle is replaced when the
\* connection is made, and the handle it replaces is not closed
InSetupConnect ==
    /\ At("_setup", "connect")
    /\ \E o \in NetOutcomes :
         /\ Net("connect", o)
         /\ IF o = "ok"
            THEN /\ opened' = opened + 1
                 /\ self_ftp' = opened + 1
                 /\ live' = Replacing \cup {opened + 1}
                 /\ wd' = login_dir
                 /\ Ctl(Goto("login"), NoExc, ret)
            ELSE /\ UNCHANGED <<opened, self_ftp, live, wd>>
                 /\ Ctl(Pop, NetExc(o), ret)
    /\ UNCHANGED <<otherVars, cfgVars, obs, self_cooldown_timestamp, fileVars, logVars>>

\* self.login()
InSetupLogin ==
    /\ At("_setup", "login")
    /\ Ctl(TailCall(Method("login", "close", "")), exc, ret)
    /\ UNCHANGED <<otherVars, cfgVars, wd, obs, sessVars, fileVars, clockVars, logVars, faults, lastAct>>

\* ---- FTP.login ----
\* try: self.close() except: pass
LoginClose ==
    /\ At("login", "close")
    /\ Ctl(Call(Frame("close", "quit"), "go"), exc, ret)
    /\ UNCHANGED <<otherVars, cfgVars, wd, obs, sessVars, fileVars, clockVars, logVars, faults, lastAct>>

\* _login(self, LOG)
LoginGo ==
    /\ At("login", "go")
    /\ Ctl(TailCall(Wrapped("_login", Top.secs, "")), NoExc, ret)
    /\ UNCHANGED <<otherVars, cfgVars, wd, obs, sessVars, fileVars, clockVars, logVars, faults, lastAct>>

\* ---- FTP.close ----
\* mutant of QuitGuarded: self.ftp.quit() outside a try statement
QuitGuarded_no == FALSE

\* try: self.ftp.quit() / except Exception: the warning is logged and close()
\* goes on
QuitGuarded == TRUE

\* self.ftp.quit(), whose errors are logged and dropped (on a handle closed
\* before, AttributeError); a QUIT that was answered closes the socket
\* itself; nothing is done while self.ftp is unset
CloseQuit ==
    /\ At("close", "quit")
    /\ IF self_ftp = 0
       THEN /\ Ctl(Pop, NoExc, RetNone)
            /\ obs' = [obs EXCEPT !.quit = "", !.hard = "", !.close = "returned"]
            /\ UNCHANGED <<clockVars, faults, live>>
       ELSE \E o \in SessionOutcomes :
            /\ faults' = NetFaults(o)
            /\ now' = NetEnd(o)
            /\ alarm' = NetAlarm(o)
            /\ live' = IF o = "ok" THEN live \ {self_ftp} ELSE live
            /\ IF o = "ok" \/ QuitGuarded
               THEN /\ Ctl(Goto("close"), NoExc, ret)
                    /\ obs' = [obs EXCEPT !.quit = IF o = "ok" THEN "ok" ELSE "failed",
                                          !.hard = "", !.close = "running"]
               ELSE /\ Ctl(Pop, NetExc(o), ret)
                    /\ obs' = [obs EXCEPT !.quit = "failed", !.hard = "", !.close = "raised"]
    /\ UNCHANGED <<otherVars, cfgVars, wd, self_cooldown_timestamp, self_ftp, opened,
                   fileVars, logVars, lastAct>>

\* what self.ftp.close() may do: close the file and the socket of the handle,
\* or fail while the socket is still open; on a handle closed before it does
\* nothing
CloseOutcomes ==
    {"ok"} \cup IF self_ftp \in live /\ faults < MaxFaults THEN {"socket.error"} ELSE {}

\* try: self.ftp.close() / except Exception: the warning is logged, and
\* close() returns
CloseClose ==
    /\ At("close", "close")
    /\ \E o \in CloseOutcomes :
         /\ faults' = NetFaults(o)
         /\ live' = IF o = "ok" THEN live \ {self_ftp} ELSE live
         /\ obs' = [obs EXCEPT !.hard = IF o = "ok" THEN "ok" ELSE "failed",
                               !.close = "returned"]
    /\ Ctl(Pop, NoExc, RetNone)
    /\ UNCHANGED <<otherVars, cfgVars, wd, self_cooldown_timestamp, self_ftp, opened,
                   fileVars, clockVars, logVars, lastAct>>

\* ---- FTP.login._login ----
\* hasattr(self.ftp, 'socket'): an ftplib.FTP keeps its socket in `sock`, and
\* has no attribute `socket`
HasSocketAttribute == FALSE

\* self._cooldown() before a sleep-guarded request at pc, going to pc `next`;
\* a TimeoutError out of the sleep goes to `handler`, or leaves the function
\* when handler is "end"
CooldownStep(p, pc, next, handler) ==
    /\ At(p, pc)
    /\ LET sl == Sleep(CooldownSleeptime) IN
       /\ now' = sl.now
       /\ IF sl.fired
          THEN /\ alarm' = 0
               /\ Ctl(IF handler = "end" THEN Pop ELSE Goto(handler),
                      Exc("TimeoutError", 0), ret)
          ELSE /\ alarm' = alarm
               /\ Ctl(Goto(next), exc, ret)
    /\ UNCHANGED <<otherVars, cfgVars, wd, obs, sessVars, fileVars, logVars, faults, lastAct>>

\* if not hasattr(self, 'ftp') or not hasattr(self.ftp, 'socket'): self._cooldown()
InLoginCool1 ==
    IF HasSocketAttribute /\ self_ftp # 0
    THEN /\ At("_login", "cool1")
         /\ Ctl(Goto("cool2"), exc, ret)
         /\ UNCHANGED <<otherVars, cfgVars, wd, obs, sessVars, fileVars, clockVars, logVars, faults, lastAct>>
    ELSE CooldownStep("_login", "cool1", "connect", "fin")

\* self.ftp = ftplib.FTP(self.host); self._cooldown_set_timestamp()
InLoginConnect ==
    /\ At("_login", "connect")
    /\ \E o \in NetOutcomes :
         /\ Net("connect", o)
         /\ IF o = "ok"
            THEN /\ opened' = opened + 1
                 /\ self_ftp' = opened + 1
                 /\ live' = Replacing \cup {opened + 1}
                 /\ self_cooldown_timestamp' = Stamped(now')
                 /\ wd' = login_dir
                 /\ Ctl(Goto("cool2"), NoExc, ret)
            ELSE /\ UNCHANGED <<opened, self_ftp, live, self_cooldown_timestamp, wd>>
                 /\ Ctl(Goto("fin"), NetExc(o), ret)
    /\ UNCHANGED <<otherVars, cfgVars, obs, fileVars, logVars>>

\* self._cooldown() before the login
InLoginCool2 == CooldownStep("_login", "cool2", "login", "fin")

\* self.ftp.login(...), with or without credentials
InLoginLogin ==
    /\ At("_login", "login")
    /\ \E o \in NetOutcomes :
         /\ Net("login", o)
         /\ Ctl(Goto("fin"), NetExc(o), RetNone)
    /\ UNCHANGED <<otherVars, cfgVars, wd, obs, sessVars, fileVars, logVars>>

\* mutant of LoginFinallyStamps: the timestamp is set after the login instead
\* of in a finally clause, so a failed attempt leaves it alone
LoginFinallyStamps_onSuccess(e) == e = NoExc

\* finally: self._cooldown_set_timestamp(), whatever the attempt raised
LoginFinallyStamps(e) == TRUE

\* the finally clause of _login
InLoginFin ==
    /\ At("_login", "fin")
    /\ self_cooldown_timestamp' =
           IF LoginFinallyStamps(exc) THEN Stamped(now) ELSE self_cooldown_timestamp
    /\ loginLog' = [n |-> loginLog.n + 1, end |-> now,
                    stamp |-> self_cooldown_timestamp', exc |-> exc]
    /\ Ctl(Pop, exc, ret)
    /\ UNCHANGED <<otherVars, cfgVars, wd, obs, self_ftp, opened, live, fileVars, clockVars,
                   ops, result, dl, faults, lastAct>>


\* ---- FTP.list_contents ----
\* try: return _list_contents(self, remote_path)
ListTry ==
    /\ At("list_contents", "try")
    /\ Ctl(Call(Wrapped("_list_contents", Top.secs, Top.a), "except"), exc, ret)
    /\ obs' = [obs EXCEPT !.inv = 1, !.relogin = 0]
    /\ UNCHANGED <<otherVars, cfgVars, wd, sessVars, fileVars, clockVars, logVars, faults, lastAct>>

\* except socket.error: self.login()
ListExcept ==
    /\ At("list_contents", "except")
    /\ IF exc # NoExc /\ IsSocketError(exc)
       THEN /\ Ctl(Call(Method("login", "close", ""), "again"), NoExc, ret)
            /\ obs' = [obs EXCEPT !.relogin = obs.relogin + 1]
       ELSE /\ Ctl(Pop, exc, ret)
            /\ obs' = obs
    /\ UNCHANGED <<otherVars, cfgVars, wd, sessVars, fileVars, clockVars, logVars, faults, lastAct>>

\* mutant of SecondListingGuarded: the second call is made inside the try
\* statement as well
SecondListingGuarded_yes == TRUE

\* whether the call of _list_contents after the login is inside the try
\* statement: it is in the except clause, where a socket.error is not caught
SecondListingGuarded == FALSE

\* return _list_contents(self, remote_path), unless the login raised
ListAgain ==
    /\ At("list_contents", "again")
    /\ IF exc # NoExc
       THEN /\ Ctl(Pop, exc, ret)
            /\ obs' = obs
       ELSE /\ Ctl(IF SecondListingGuarded
                   THEN Call(Wrapped("_list_contents", Top.secs, Top.a), "except")
                   ELSE TailCall(Wrapped("_list_contents", Top.secs, Top.a)),
                   exc, ret)
            /\ obs' = [obs EXCEPT !.inv = obs.inv + 1]
    /\ UNCHANGED <<otherVars, cfgVars, wd, sessVars, fileVars, clockVars, logVars, faults, lastAct>>

\* ---- FTP.list_contents._list_contents ----
\* a request made inside the try statement of _list_contents: on to `next`
\* when it is served, to the finally clause when it fails
ListRequest(pc, kind, next, r) ==
    /\ At("_list_contents", pc)
    /\ \E o \in SessionOutcomes :
         /\ Net(kind, o)
         /\ Ctl(Goto(IF o = "ok" THEN next ELSE "fin"), NetExc(o), IF o = "ok" THEN r ELSE ret)
         /\ wd' = IF o = "ok" /\ kind = "cwd" THEN CwdTarget(Top, wd) ELSE wd
         /\ obs' = IF o = "ok" /\ kind = "LIST" THEN [obs EXCEPT !.listed = wd] ELSE obs
    /\ UNCHANGED <<otherVars, cfgVars, sessVars, fileVars, logVars>>

\* prev_remote_working_dir = self.ftp.pwd(), before the try statement, and
\* `if remote_path == None: remote_path = prev_remote_working_dir`
InListPwd0 ==
    /\ At("_list_contents", "pwd0")
    /\ \E o \in SessionOutcomes :
         /\ Net("pwd", o)
         /\ Ctl(IF o = "ok"
                THEN [stack EXCEPT ![Len(stack)].pc = "cool",
                                   ![Len(stack)].prev = wd,
                                   ![Len(stack)].rp = IF Top.a = "none" THEN wd ELSE NoDir]
                ELSE Pop,
                NetExc(o), ret)
    /\ UNCHANGED <<otherVars, cfgVars, wd, obs, sessVars, fileVars, logVars>>

\* self._cooldown(), before the try statement
InListCool == CooldownStep("_list_contents", "cool", "setup", "end")

\* try: self.setup()
InListSetup ==
    /\ At("_list_contents", "setup")
    /\ Ctl(Call(Method("setup", "try", HandleState), "path"), exc, ret)
    /\ UNCHANGED <<otherVars, cfgVars, wd, obs, sessVars, fileVars, clockVars, logVars, faults, lastAct>>

\* `if remote_path:` a remote_path of None was replaced by the working
\* directory, and only the empty string skips the change of directory
InListPath ==
    /\ At("_list_contents", "path")
    /\ Ctl(Goto(IF exc # NoExc THEN "fin" ELSE IF Top.a = "empty" THEN "list" ELSE "pwd1"),
           exc, ret)
    /\ UNCHANGED <<otherVars, cfgVars, wd, obs, sessVars, fileVars, clockVars, logVars, faults, lastAct>>

\* prev_remote_working_dir = self.ftp.pwd()
InListPwd1 ==
    /\ At("_list_contents", "pwd1")
    /\ \E o \in SessionOutcomes :
         /\ Net("pwd", o)
         /\ Ctl(IF o = "ok"
                THEN [stack EXCEPT ![Len(stack)].pc = "cwd", ![Len(stack)].prev = wd]
                ELSE Goto("fin"),
                NetExc(o), ret)
    /\ UNCHANGED <<otherVars, cfgVars, wd, obs, sessVars, fileVars, logVars>>

\* self.ftp.cwd(remote_path)
InListCwd == ListRequest("cwd", "cwd", "list", ret)

\* self.ftp.retrlines("LIST", contents.append); return contents, remote_path
InListList == ListRequest("list", "LIST", "fin", RetLines)

\* finally: self.ftp.cwd(prev_remote_working_dir), then
\* self._cooldown_set_timestamp(); an error of the cwd replaces the one being
\* propagated and skips the timestamp
InListFin ==
    /\ At("_list_contents", "fin")
    /\ \E o \in SessionOutcomes :
         /\ Net("cwd", o)
         /\ IF o = "ok"
            THEN /\ self_cooldown_timestamp' = Stamped(now')
                 /\ wd' = Top.prev
                 /\ Ctl(Pop, exc, ret)
            ELSE /\ self_cooldown_timestamp' = self_cooldown_timestamp
                 /\ wd' = wd
                 /\ Ctl(Pop, NetExc(o), ret)
    /\ UNCHANGED <<otherVars, cfgVars, obs, self_ftp, opened, live, fileVars, logVars>>

\* ---- FTP.get_file_size (with FTP.get_entries) ----
\* self.get_entries(remote_dir): the directory part of a relative file name
\* is the empty string
SizeList ==
    /\ At("get_file_size", "list")
    /\ Ctl(Call(Method("list_contents", "try", Top.a), "scan"), exc, ret)
    /\ UNCHANGED <<otherVars, cfgVars, wd, obs, sessVars, fileVars, clockVars, logVars, faults, lastAct>>

\* the loop over the entries: the size of the entry named like the file, or
\* EasyFtpError when the listing has no such file
SizeScan ==
    /\ At("get_file_size", "scan")
    /\ IF exc # NoExc
       THEN Ctl(Pop, exc, ret)
       ELSE IF remote.exists
       THEN Ctl(Pop, NoExc, RetSize(remote.size))
       ELSE Ctl(Pop, Exc("EasyFtpError", 0), ret)
    /\ UNCHANGED <<otherVars, cfgVars, wd, obs, sessVars, fileVars, clockVars, logVars, faults, lastAct>>


\* ---- FTP.download_file ----
\* `if os.path.isfile(destination_filename):` remote_file_size = self.get_file_size(...)
DownloadStart ==
    /\ At("download_file", "start")
    /\ IF dest.exists
       THEN Ctl(Call([Frame("get_file_size", "list") EXCEPT !.a = Top.a], "compare"), exc, ret)
       ELSE Ctl(Goto("urllib2"), exc, ret)
    /\ UNCHANGED <<otherVars, cfgVars, wd, obs, sessVars, fileVars, clockVars, logVars, faults, lastAct>>

\* mutant of AlreadyDownloaded: the comparison is of the wrong kind and never
\* holds
AlreadyDownloaded_never(remote_file_size, local_file_size) == FALSE

\* `if remote_file_size == local_file_size:` of download_file
AlreadyDownloaded(remote_file_size, local_file_size) == remote_file_size = local_file_size

\* mutant of SizeVerified: only the existence of the temporary file is checked
SizeVerified_always(local_file_size, remote_file_size) == TRUE

\* `if local_file_size == remote_file_size:` of both transports
SizeVerified(local_file_size, remote_file_size) == local_file_size = remote_file_size

\* `if remote_file_size == local_file_size: return True`; the call of
\* get_file_size is in no try statement
DownloadCompare ==
    /\ At("download_file", "compare")
    /\ IF exc # NoExc
       THEN Ctl(Pop, exc, ret)
       ELSE IF AlreadyDownloaded(ret.n, dest.size)
       THEN Ctl(Pop, NoExc, RetBool(TRUE))
       ELSE Ctl(Goto("urllib2"), NoExc, ret)
    /\ dl' = IF dl.depth # 0 THEN dl
             ELSE [dl EXCEPT !.precheck = IF exc # NoExc THEN "raised"
                                          ELSE IF ret.n = dest.size THEN "equal"
                                          ELSE "differs"]
    /\ UNCHANGED <<otherVars, cfgVars, wd, obs, sessVars, fileVars, clockVars, ops, result, loginLog,
                   faults, lastAct>>

\* try: if download_using_urllib2(...): return True
DownloadUrllib2 ==
    /\ At("download_file", "urllib2")
    /\ Ctl(Call(Wrapped("download_using_urllib2", Top.secs, Top.a), "urllib2done"), exc, ret)
    /\ dl' = [dl EXCEPT !.urlInv = dl.urlInv + 1]
    /\ UNCHANGED <<otherVars, cfgVars, wd, obs, sessVars, fileVars, clockVars, ops, result,
                   loginLog, faults, lastAct>>

\* mutant of FallsThrough: the except clause around download_using_urllib2
\* lets socket.error pass, as the one around download_using_ftplib does
FallsThrough_butSocketError(e) == ~IsSocketError(e)

\* `except Exception, e:` around download_using_urllib2: socket.error,
\* TimeoutError and RetryError are Exceptions
FallsThrough(e) == TRUE

\* except Exception: log; then `if not hasattr(self, 'ftp') or self.ftp == None:
\* self.setup()`
DownloadUrllib2Done ==
    /\ At("download_file", "urllib2done")
    /\ IF exc = NoExc /\ ret = RetBool(TRUE)
       THEN /\ Ctl(Pop, NoExc, RetBool(TRUE))
            /\ dl' = [dl EXCEPT !.urlExc = "none"]
       ELSE /\ dl' = [dl EXCEPT !.urlFails = dl.urlFails + 1, !.urlExc = exc.type]
            /\ IF exc # NoExc /\ ~FallsThrough(exc)
               THEN Ctl(Pop, exc, ret)
               ELSE IF self_ftp = 0
               THEN Ctl(Call(Method("setup", "try", HandleState), "ftplib"), NoExc, ret)
               ELSE Ctl(Goto("ftplib"), NoExc, ret)
    /\ UNCHANGED <<otherVars, cfgVars, wd, obs, sessVars, fileVars, clockVars, ops, result,
                   loginLog, faults, lastAct>>

\* try: if download_using_ftplib(...): return True
DownloadFtplib ==
    /\ At("download_file", "ftplib")
    /\ IF exc # NoExc
       THEN /\ Ctl(Pop, exc, ret)
            /\ dl' = dl
       ELSE /\ Ctl(Call(Wrapped("download_using_ftplib", Top.secs, Top.a), "ftplibdone"), exc, ret)
            /\ dl' = [dl EXCEPT !.ftpInv = dl.ftpInv + 1]
    /\ UNCHANGED <<otherVars, cfgVars, wd, obs, sessVars, fileVars, clockVars, ops, result,
                   loginLog, faults, lastAct>>

\* mutant of RecursesOnSocketError: the socket.error clause is missing and
\* the error is handled like any other
RecursesOnSocketError_never(e) == FALSE

\* `except socket.error, e:` of download_file
RecursesOnSocketError(e) == IsSocketError(e)

\* the outcome of download_using_ftplib: True, or False, or socket.error:
\* time.sleep(timeout_seconds * 5) and return self.download_file(...), or
\* another exception: False
DownloadFtplibDone ==
    /\ At("download_file", "ftplibdone")
    /\ LET seen == IF exc.type = "socket.error"
                   THEN [dl EXCEPT !.socketErrors = dl.socketErrors + 1] ELSE dl IN
       IF exc = NoExc
       THEN /\ Ctl(Pop, NoExc, RetBool(ret.b))
            /\ UNCHANGED <<clockVars, dl>>
       ELSE IF RecursesOnSocketError(exc)
       THEN LET sl == Sleep(self_timeout_seconds * DownloadSleepFactor) IN
            /\ now' = sl.now
            /\ IF sl.fired
               THEN /\ alarm' = 0
                    /\ Ctl(Pop, Exc("TimeoutError", 0), ret)
                    /\ dl' = seen
               ELSE /\ alarm' = alarm
                    /\ Ctl(Call([Frame("download_file", "start") EXCEPT
                                   !.secs = self_timeout_seconds
                                            + (IF self_cooldown_timestamp # 0
                                               THEN sl.now - self_cooldown_timestamp ELSE 0),
                                   !.a = Top.a], "end"), NoExc, ret)
                    /\ dl' = [seen EXCEPT !.depth = dl.depth + 1]
       ELSE /\ Ctl(Pop, NoExc, RetBool(FALSE))
            /\ dl' = seen
            /\ UNCHANGED clockVars
    /\ UNCHANGED <<otherVars, cfgVars, wd, obs, sessVars, fileVars, ops, result, loginLog, faults, lastAct>>

\* ---- the two transports ----
\* what a transfer into the temporary file may do: "whole" (all bytes
\* written, normal return), "short" (normal return with fewer bytes),
\* "refused" (an error before any byte arrives), "cut" (an error after k
\* bytes).  A remote file that does not exist is refused by the server, which
\* is no failure of the network.  outs is what the requests of the transfer
\* may do.
Transfers(outs) ==
    LET errs == outs \ {"ok"} IN
    {[how |-> "refused", err |-> e, k |-> 0] : e \in errs}
    \cup (IF "ok" \notin outs THEN {}
          ELSE IF ~remote.exists THEN {[how |-> "refused", err |-> "Exception", k |-> 0]}
          ELSE {[how |-> "whole", err |-> "ok", k |-> remote.size]}
               \cup {[how |-> "cut", err |-> e, k |-> k] : e \in errs, k \in 0..remote.size}
               \cup (IF faults < MaxFaults
                     THEN {[how |-> "short", err |-> "ok", k |-> k] :
                              k \in 0..(remote.size - 1)}
                     ELSE {}))

\* whether transfer x is a failure of the network
TransferFailed(x) ==
    ~ \/ x.how = "whole"
      \/ x.err = "AttributeError"
      \/ (x.how = "refused" /\ x.err = "Exception" /\ ~remote.exists)

\* the exception of transfer x
TransferExc(x) ==
    IF x.err = "ok" THEN NoExc
    ELSE Exc(x.err, IF TransferFailed(x) THEN faults + 1 ELSE 0)

TransferFaults(x) == IF TransferFailed(x) THEN faults + 1 ELSE faults

\* a transfer of the given kind is made and the network does x to it
Transfer(kind, x) ==
    /\ faults' = TransferFaults(x)
    /\ now' = NetEnd(x.err)
    /\ alarm' = NetAlarm(x.err)
    /\ lastAct' = NetAct(kind, x.err)

\* a transport that opens destination_filename itself for writing
destination_filename_tmp_isDestination == "destination"

\* destination_filename_tmp = "%s.tmp" % (destination_filename), the path
\* both transports open for writing
destination_filename_tmp == "tmp"

\* open(destination_filename_tmp, 'wb') and the writes to it leave file f at
\* that path
Written(f) ==
    IF destination_filename_tmp = "tmp"
    THEN tmp' = f /\ dest' = dest
    ELSE dest' = f /\ tmp' = tmp

\* self._cooldown() of download_using_urllib2, before the try statement
UrlCooldown == CooldownStep("download_using_urllib2", "cool", "fetch", "end")

\* try: urllib2.urlopen(remote_url), open(destination_filename_tmp, 'wb'),
\* shutil.copyfileobj; finally: self._cooldown_set_timestamp()
UrlFetch ==
    /\ At("download_using_urllib2", "fetch")
    /\ \E x \in Transfers(NetOutcomes) :
         /\ Transfer("urlopen", x)
         /\ IF x.how = "refused"
            THEN UNCHANGED <<tmp, dest>>
            ELSE Written(File(x.k, "url"))
         /\ self_cooldown_timestamp' = Stamped(now')
         /\ Ctl(IF x.err = "ok" THEN Goto("verify") ELSE Pop, TransferExc(x), ret)
    /\ dl' = [dl EXCEPT !.urlCalls = dl.urlCalls + 1]
    /\ UNCHANGED <<otherVars, cfgVars, wd, obs, self_ftp, opened, live, remote,
                   ops, result, loginLog>>

\* `if os.path.isfile(destination_filename_tmp): os.remove(...)` of
\* download_using_ftplib
FtpRemoveTmp ==
    /\ At("download_using_ftplib", "rm")
    /\ tmp' = Absent
    /\ Ctl(Goto("cool"), exc, ret)
    /\ UNCHANGED <<otherVars, cfgVars, wd, obs, sessVars, remote, dest, clockVars, logVars, faults, lastAct>>

\* self._cooldown() of download_using_ftplib, before the try statement
FtpCooldown == CooldownStep("download_using_ftplib", "cool", "retr", "end")

\* try: open(destination_filename_tmp, 'wb'), self.ftp.retrbinary("RETR ...");
\* finally: self._cooldown_set_timestamp().  The file is created before the
\* request is made.
FtpRetr ==
    /\ At("download_using_ftplib", "retr")
    /\ \E x \in Transfers(SessionOutcomes) :
         /\ Transfer("RETR", x)
         /\ Written(File(x.k, "ftp"))
         /\ self_cooldown_timestamp' = Stamped(now')
         /\ Ctl(IF x.err = "ok" THEN Goto("verify") ELSE Pop, TransferExc(x), ret)
         /\ dl' = [dl EXCEPT !.retrCalls = dl.retrCalls + 1,
                             !.retrOnFatal = dl.retrOnFatal
                                             \/ (dl.fatalConn # 0 /\ dl.fatalConn = self_ftp),
                             !.fatalConn = IF x.err = "socket.error"
                                           THEN self_ftp ELSE dl.fatalConn]
    /\ UNCHANGED <<otherVars, cfgVars, wd, obs, self_ftp, opened, live, remote,
                   ops, result, loginLog>>

\* `if os.path.isfile(destination_filename_tmp):` remote_file_size =
\* self.get_file_size(remote_file_address), in both transports
Verify(p) ==
    /\ At(p, "verify")
    /\ IF tmp.exists
       THEN Ctl(Call([Frame("get_file_size", "list") EXCEPT !.a = Top.a], "move"), exc, ret)
       ELSE Ctl(Pop, NoExc, RetBool(FALSE))
    /\ UNCHANGED <<otherVars, cfgVars, wd, obs, sessVars, fileVars, clockVars, logVars, faults, lastAct>>

\* `if local_file_size == remote_file_size:` shutil.move(tmp, destination)
\* and return True; else return False, in both transports
Move(p) ==
    /\ At(p, "move")
    /\ IF exc # NoExc
       THEN /\ Ctl(Pop, exc, ret)
            /\ UNCHANGED <<dest, tmp, dl>>
       ELSE IF SizeVerified(tmp.size, ret.n)
       THEN /\ dest' = tmp
            /\ tmp' = Absent
            /\ dl' = [dl EXCEPT !.moved = dl.moved + 1]
            /\ Ctl(Pop, NoExc, RetBool(TRUE))
       ELSE /\ Ctl(Pop, NoExc, RetBool(FALSE))
            /\ UNCHANGED <<dest, tmp, dl>>
    /\ UNCHANGED <<otherVars, cfgVars, wd, obs, sessVars, remote, clockVars, ops, result, loginLog,
                   faults, lastAct>>

UrlVerify == Verify("download_using_urllib2")

UrlMove == Move("download_using_urllib2")

FtpVerify == Verify("download_using_ftplib")

FtpMove == Move("download_using_ftplib")

\* ---- the caller ----
\* the remote files a download may name: one that exists, of some size, or
\* one that does not
RemoteChoices == {Absent} \cup {File(n, "remote") : n \in 0..MaxSize}

\* what may be at the destination, or at the temporary name, before the
\* first download
LocalChoices == {Absent} \cup {File(n, "old") : n \in 0..MaxSize}

\* the remote_file_address a download is given: a relative file name, whose
\* directory part is the empty string
DownloadAddresses == {"empty"}

\* what may be at the temporary name before the first download: nothing, or
\* the remains of an earlier download
TmpChoices == {Absent, File(MaxSize, "old")}

\* the caller starts login(), close() or a listing, after letting some time pass
CallOther ==
    /\ At("caller", "idle")
    /\ ops < MaxOps
    /\ ops' = ops + 1
    /\ \E d \in {0, MaxIdle} : now' = now + d
    /\ \E f \in { [Frame("login", "close") EXCEPT
                      !.secs = self_timeout_seconds
                               + (IF self_cooldown_timestamp # 0
                                  THEN now' - self_cooldown_timestamp ELSE 0)],
                  Frame("close", "quit") }
               \cup { [Frame("list_contents", "try") EXCEPT
                      !.secs = self_timeout_seconds
                               + (IF self_cooldown_timestamp # 0
                                  THEN now' - self_cooldown_timestamp ELSE 0),
                      !.a = a] : a \in {"none", "path"} } :
         /\ Ctl(Append([stack EXCEPT ![Len(stack)].pc = "wait", ![Len(stack)].a = f.p], f),
                NoExc, RetNone)
         /\ obs' = IF f.p = "list_contents"
                   THEN [NoObs EXCEPT !.arg = f.a, !.wd0 = wd]
                   ELSE NoObs
    /\ dl' = [dl EXCEPT !.active = FALSE]
    /\ UNCHANGED <<otherVars, cfgVars, wd, sessVars, fileVars, alarm, result, loginLog,
                   faults, lastAct>>

\* the caller starts download_file(remote_file_address, destination_filename);
\* the first download fixes the files involved
CallDownload ==
    /\ At("caller", "idle")
    /\ ops < MaxOps
    /\ ops' = ops + 1
    /\ \E d \in {0, MaxIdle} : now' = now + d
    /\ IF dl.started
       THEN UNCHANGED fileVars
       ELSE /\ remote' \in RemoteChoices
            /\ dest' \in LocalChoices
            /\ tmp' \in TmpChoices
    /\ dl' = [NoDownload EXCEPT !.started = TRUE, !.active = TRUE, !.dest0 = dest']
    /\ \E a \in DownloadAddresses :
         Ctl(Append([stack EXCEPT ![Len(stack)].pc = "wait", ![Len(stack)].a = "download_file"],
                    [Frame("download_file", "start") EXCEPT
                        !.secs = self_timeout_seconds
                                 + (IF self_cooldown_timestamp # 0
                                    THEN now' - self_cooldown_timestamp ELSE 0),
                        !.a = a]),
             NoExc, RetNone)
    /\ obs' = NoObs
    /\ UNCHANGED <<otherVars, cfgVars, wd, sessVars, alarm, result, loginLog, faults, lastAct>>

\* the operation is over: the caller has its value or its exception; a
\* constructor that raised leaves the caller without an instance
CallerDone ==
    /\ At("caller", "wait")
    /\ result' = [op |-> Top.a, kind |-> IF exc = NoExc THEN "return" ELSE "raise",
                  val |-> ret, exc |-> exc]
    /\ Ctl(Goto(IF Top.a = "__init__" /\ exc # NoExc THEN "dead" ELSE "idle"), NoExc, RetNone)
    /\ UNCHANGED <<otherVars, cfgVars, wd, obs, sessVars, fileVars, clockVars, ops, loginLog, dl,
                   faults, lastAct>>

FtpNext ==
    \/ Return
    \/ SetupTry \/ SetupExcept
    \/ WrapLoop \/ WrapRet
    \/ InSetupConnect \/ InSetupLogin
    \/ LoginClose \/ LoginGo
    \/ CloseQuit \/ CloseClose
    \/ InLoginCool1 \/ InLoginConnect \/ InLoginCool2 \/ InLoginLogin \/ InLoginFin
    \/ ListTry \/ ListExcept \/ ListAgain
    \/ InListPwd0 \/ InListCool \/ InListSetup \/ InListPath
    \/ InListPwd1 \/ InListCwd \/ InListList \/ InListFin
    \/ SizeList \/ SizeScan
    \/ DownloadStart \/ DownloadCompare \/ DownloadUrllib2 \/ DownloadUrllib2Done
    \/ DownloadFtplib \/ DownloadFtplibDone
    \/ UrlCooldown \/ UrlFetch \/ UrlVerify \/ UrlMove
    \/ FtpRemoveTmp \/ FtpCooldown \/ FtpRetr \/ FtpVerify \/ FtpMove
    \/ CallOther \/ CallDownload \/ CallerDone

Spec == FtpInit /\ [][FtpNext]_vars

\* login(), close() and the listings alone, on an instance that may retry
\* more often, on either runtime
ListInit == Constructed(0..MaxListRetries, Collectors)

ListNext ==
    \/ SetupTry \/ SetupExcept
    \/ WrapLoop \/ WrapRet
    \/ InSetupConnect \/ InSetupLogin
    \/ LoginClose \/ LoginGo
    \/ CloseQuit \/ CloseClose
    \/ InLoginCool1 \/ InLoginConnect \/ InLoginCool2 \/ InLoginLogin \/ InLoginFin
    \/ ListTry \/ ListExcept \/ ListAgain
    \/ InListPwd0 \/ InListCool \/ InListSetup \/ InListPath
    \/ InListPwd1 \/ InListCwd \/ InListList \/ InListFin
    \/ CallOther \/ CallerDone

SpecList == ListInit /\ [][ListNext]_vars

\* the constructor alone, from its first statement to its return or its error
NewNext ==
    \/ InitSetup \/ InitCwd
    \/ SetupTry \/ SetupExcept
    \/ WrapLoop \/ WrapRet
    \/ InSetupConnect \/ InSetupLogin
    \/ LoginClose \/ LoginGo
    \/ CloseQuit \/ CloseClose
    \/ InLoginCool1 \/ InLoginConnect \/ InLoginCool2 \/ InLoginLogin \/ InLoginFin
    \/ CallerDone

SpecNew == NewInit /\ [][NewNext]_vars

\* a constructor that met no failure leaves the instance as FtpInit has it
ConstructedAsFtpInit ==
    (At("caller", "idle") /\ faults = 0) =>
        /\ self_cooldown_timestamp = Stamped(ConstructedAt)
        /\ self_ftp = 2 /\ opened = 2 /\ live = {2}
        /\ now = ConstructedAt
        /\ lastAct = [kind |-> "cwd", start |-> ConstructedAt, end |-> ConstructedAt,
                      prevEnd |-> ConstructedAt]
        /\ loginLog = [n |-> 1, end |-> ConstructedAt, stamp |-> Stamped(ConstructedAt),
                       exc |-> NoExc]
        /\ result = [op |-> "__init__", kind |-> "return", val |-> RetNone, exc |-> NoExc]
        /\ exc = NoExc /\ ret = RetNone /\ alarm = 0
        /\ wd = RootPath


(***************************************************************************)
(* SpecTwo: the timeout decorator used by two instances at once.  The      *)
(* instances are scheduled either as two threads, instance MainThread in   *)
(* the main thread, or as two cooperative tasks of the main thread.        *)
(***************************************************************************)
TwoInit ==
    /\ instances = [i \in Instances |-> NoCall]
    /\ \E s \in {"threads", "tasks"} : process = [NoProcess EXCEPT !.sched = s]
    /\ ParseIdle
    /\ number_of_retries = 0
    /\ sleep_factor = 0
    /\ rpc = "idle"
    /\ counter = 0
    /\ attempts = <<>>
    /\ sleeps = <<>>
    /\ outcome = NoOutcome
    /\ calls = 0
    /\ FtpIdle

\* whether signal.signal() may be called by instance i: "signal only works
\* in main thread"
MaySetHandler(i) == process.sched = "tasks" \/ i = MainThread

\* the instances a delivered SIGALRM may interrupt: the handler runs in the
\* main thread, in whatever that thread is executing
Interruptible ==
    {i \in Instances : instances[i].pc = "body"
                       /\ (process.sched = "threads" => i = MainThread)}

\* instance i calls a function decorated with @timeout(secs)
TwoCall(i) ==
    /\ instances[i].pc = "idle"
    /\ \E secs \in TwoDeadlines :
         instances' = [instances EXCEPT ![i] = [NoCall EXCEPT !.pc = "arm", !.secs = secs]]
    /\ UNCHANGED <<process, retryVars, ftpVars, parseVars>>

\* signal.alarm(seconds): the one alarm of the process is set, and an alarm
\* that was pending is dropped
ArmedAlarm(i, t) == [process EXCEPT !.alarm = t, !.owner = i]

\* timeout.inner up to the try statement: signal.signal(SIGALRM, handler),
\* which raises ValueError outside the main thread, then
\* signal.alarm(seconds); an undecorated function just starts
TwoArm(i) ==
    /\ instances[i].pc = "arm"
    /\ IF NoTimeout(instances[i].secs)
       THEN /\ instances' = [instances EXCEPT ![i].pc = "body"]
            /\ process' = process
       ELSE IF ~MaySetHandler(i)
       THEN /\ instances' = [instances EXCEPT ![i].pc = "idle", ![i].last = "ValueError"]
            /\ process' = process
       ELSE /\ instances' = [instances EXCEPT ![i].pc = "body",
                                              ![i].due = process.now + instances[i].secs]
            /\ process' = ArmedAlarm(i, process.now + instances[i].secs)
    /\ UNCHANGED <<retryVars, ftpVars, parseVars>>

\* finally: signal.alarm(0), whoever set the alarm that is pending
CancelledAlarm(i) == [process EXCEPT !.alarm = 0, !.owner = "none"]

\* the function of instance i returns: result = function(...), then the
\* finally clause of timeout.inner
TwoFinish(i) ==
    /\ instances[i].pc = "body"
    /\ instances' = [instances EXCEPT ![i].pc = "idle", ![i].due = 0, ![i].last = "return"]
    /\ process' = IF NoTimeout(instances[i].secs) THEN process ELSE CancelledAlarm(i)
    /\ UNCHANGED <<retryVars, ftpVars, parseVars>>

\* SIGALRM is delivered: _handle_timeout raises TimeoutError in the code the
\* main thread is executing, if that is a call of an instance; the finally
\* clause of that call then finds no alarm pending
TwoExpire ==
    /\ process.alarm # 0
    /\ process.now >= process.alarm
    /\ process' = [process EXCEPT !.alarm = 0, !.owner = "none"]
    /\ IF Interruptible = {}
       THEN instances' = instances
       ELSE \E i \in Interruptible :
              instances' = [instances EXCEPT ![i].pc = "idle", ![i].due = 0,
                                             ![i].last = "TimeoutError",
                                             ![i].armedBy = process.owner]
    /\ UNCHANGED <<retryVars, ftpVars, parseVars>>

\* a second passes, unless an alarm is due
TwoTick ==
    /\ process.now < MaxTwoTime
    /\ process.alarm = 0 \/ process.now < process.alarm
    /\ process' = [process EXCEPT !.now = process.now + 1]
    /\ UNCHANGED <<instances, retryVars, ftpVars, parseVars>>

TwoNext ==
    \/ \E i \in Instances : TwoCall(i)
    \/ \E i \in Instances : TwoArm(i)
    \/ \E i \in Instances : TwoFinish(i)
    \/ TwoExpire
    \/ TwoTick

SpecTwo == TwoInit /\ [][TwoNext]_vars

(***************************************************************************)
(* SpecParse: FtpEntry and FTP.get_entries on the lines of a listing.  The *)
(* server sends a listing word by word; a line is given to FtpEntry, or    *)
(* the listing that list_contents returned is given to the loop of         *)
(* get_entries.                                                            *)
(***************************************************************************)
\* the first words a line may have: the mode of a file, of a directory, of a
\* link, and the first word of the "total" line
FirstWords == {"-rw-r-----", "drwxr-x---+", "lrwxrwxrwx", "total"}

\* w[0], the first character of a first word
Initial(w) ==
    CASE w = "-rw-r-----" -> "-"
      [] w = "drwxr-x---+" -> "d"
      [] w = "lrwxrwxrwx" -> "l"
      [] OTHER -> "t"

\* the fifth words a line may have: digits, or something else
FifthWords == {"1734480", "4,"}

\* the words of a line at the other places, from the example lines in
\* FtpEntry; the words from the ninth on are the words of a name
OtherWords ==
    [i \in 1..MaxFields |->
        CASE i = 2 -> "1" [] i = 3 -> "ftpadm" [] i = 4 -> "marnet"
          [] i = 6 -> "Mar" [] i = 7 -> "9" [] i = 8 -> "08:13"
          [] i = 9 -> "arko" [] i = 10 -> "old" [] i = 11 -> "copy"
          [] i = 12 -> "2" [] OTHER -> "more"]

\* the words that may follow the words ws of a line
NextWords(ws) ==
    IF Len(ws) = 0 THEN FirstWords
    ELSE IF Len(ws) = 4 THEN FifthWords
    ELSE {OtherWords[Len(ws) + 1]}

\* long(w): the number, or ValueError
IsLong(w) == w \in {"1", "9", "2", "1734480"}

Long(w) ==
    CASE w = "1" -> 1 [] w = "9" -> 9 [] w = "2" -> 2 [] w = "1734480" -> 1734480
      [] OTHER -> 0

\* str.split(None, maxsplit) on a line with words ws: every part is a run of
\* words; the first maxsplit words are parts of their own, and what is left
\* of the line after them is one part
Split(ws, maxsplit) ==
    IF Len(ws) <= maxsplit
    THEN [i \in 1..Len(ws) |-> <<ws[i]>>]
    ELSE [i \in 1..(maxsplit + 1) |->
            IF i <= maxsplit THEN <<ws[i]>> ELSE SubSeq(ws, maxsplit + 1, Len(ws))]

\* content_line.split(None, 10)
LineParts(line) == Split(line.words, 10)

\* FtpEntry.__init__(content_line, remote_dir): line_parts[2], [3] and [4]
\* raise IndexError on a short line, long() raises ValueError
FtpEntry(line) ==
    LET line_parts == LineParts(line) IN
    IF Len(line_parts) < 5 THEN [NoEntry EXCEPT !.exc = "IndexError"]
    ELSE IF ~IsLong(line_parts[5][1]) THEN [NoEntry EXCEPT !.exc = "ValueError"]
    ELSE [ok |-> TRUE, exc |-> "",
          owner |-> line_parts[3][1],
          group |-> line_parts[4][1],
          size |-> Long(line_parts[5][1]),
          name |-> line_parts[Len(line_parts)],
          type |-> Initial(line_parts[1][1])]

\* content_line[0]: IndexError on an empty line
FirstChar(line) ==
    IF line.lead THEN " "
    ELSE IF line.words = <<>> THEN "IndexError"
    ELSE Initial(line.words[1])

\* `content_line[0] in ["-", "d", "l"]` of get_entries
IsEntryLine(line) == FirstChar(line) \in {"-", "d", "l"}

ParseInit ==
    /\ ParseIdle
    /\ FtpIdle
    /\ TwoIdle
    /\ number_of_retries = 0
    /\ sleep_factor = 0
    /\ rpc = "idle"
    /\ counter = 0
    /\ attempts = <<>>
    /\ sleeps = <<>>
    /\ outcome = NoOutcome
    /\ calls = 0

\* the server starts a line with whitespace
ServerIndent ==
    /\ parse_pc = "listing"
    /\ Len(content_lines) < MaxLines
    /\ content_line = EmptyLine
    /\ content_line' = Line(TRUE, <<>>)
    /\ UNCHANGED <<content_lines, parse_pc, line_no, entries, entry, parse_exc,
                   retryVars, ftpVars, twoVars>>

\* the server sends one more word of the line
ServerWord ==
    /\ parse_pc = "listing"
    /\ Len(content_lines) < MaxLines
    /\ Len(content_line.words) < MaxFields
    /\ \E w \in NextWords(content_line.words) :
         content_line' = [content_line EXCEPT !.words = Append(@, w)]
    /\ UNCHANGED <<content_lines, parse_pc, line_no, entries, entry, parse_exc,
                   retryVars, ftpVars, twoVars>>

\* the server ends the line: retrlines hands it to contents.append
ServerEndLine ==
    /\ parse_pc = "listing"
    /\ Len(content_lines) < MaxLines
    /\ content_lines' = Append(content_lines, content_line)
    /\ content_line' = EmptyLine
    /\ UNCHANGED <<parse_pc, line_no, entries, entry, parse_exc,
                   retryVars, ftpVars, twoVars>>

\* FtpEntry(content_line, remote_dir) on the line by itself
ParseLine ==
    /\ parse_pc = "listing"
    /\ content_lines = <<>>
    /\ entry' = FtpEntry(content_line)
    /\ parse_pc' = "parsed"
    /\ UNCHANGED <<content_line, content_lines, line_no, entries, parse_exc,
                   retryVars, ftpVars, twoVars>>

\* get_entries: list_contents returned content_lines; entries = []
GetEntries ==
    /\ parse_pc = "listing"
    /\ content_line = EmptyLine
    /\ parse_pc' = "loop"
    /\ line_no' = 1
    /\ entries' = <<>>
    /\ UNCHANGED <<content_line, content_lines, entry, parse_exc,
                   retryVars, ftpVars, twoVars>>

\* one turn of `for content_line in content_lines`, or `return entries`;
\* nothing catches what content_line[0] or FtpEntry raises
GetEntriesLoop ==
    /\ parse_pc = "loop"
    /\ IF line_no > Len(content_lines)
       THEN /\ parse_pc' = "returned"
            /\ UNCHANGED <<line_no, entries, parse_exc>>
       ELSE LET line == content_lines[line_no]
                e == FtpEntry(line)
            IN  IF FirstChar(line) = "IndexError"
                THEN /\ parse_pc' = "raised"
                     /\ parse_exc' = "IndexError"
                     /\ UNCHANGED <<line_no, entries>>
                ELSE IF ~IsEntryLine(line)
                THEN /\ line_no' = line_no + 1
                     /\ UNCHANGED <<parse_pc, entries, parse_exc>>
                ELSE IF e.ok
                THEN /\ line_no' = line_no + 1
                     /\ entries' = Append(entries, e)
                     /\ UNCHANGED <<parse_pc, parse_exc>>
                ELSE /\ parse_pc' = "raised"
                     /\ parse_exc' = e.exc
                     /\ UNCHANGED <<line_no, entries>>
    /\ UNCHANGED <<content_line, content_lines, entry, retryVars, ftpVars, twoVars>>

ParseNext ==
    \/ ServerIndent \/ ServerWord \/ ServerEndLine
    \/ ParseLine
    \/ GetEntries \/ GetEntriesLoop

SpecParse == ParseInit /\ [][ParseNext]_vars

(***************************************************************************)
(* Claims about download_file, checked under Spec.                         *)
(***************************************************************************)
\* the caller's download_file call is over and returned v
DownloadReturned(v) ==
    /\ dl.active
    /\ At("caller", "idle")
    /\ result.op = "download_file"
    /\ result.kind = "return"
    /\ result.val = RetBool(v)

\* the caller's download_file call is over
DownloadOver == dl.active /\ At("caller", "idle") /\ result.op = "download_file"

\* C4: a download whose destination exists with the size the size lookup
\* reports for the remote file starts no transfer by either transport,
\* leaves the destination as it was, and returns True.
C4_AlreadyDownloadedShortCircuit ==
    (dl.active /\ dl.precheck = "equal") =>
        /\ dl.urlCalls = 0
        /\ dl.retrCalls = 0
        /\ dest = dl.dest0
        /\ dl.depth = 0
        /\ IF At("caller", "wait")
           THEN exc = NoExc /\ ret = RetBool(TRUE)
           ELSE DownloadReturned(TRUE)

\* a download of an existing remote file to a destination of its size returned
C4_Witness ==
    /\ DownloadReturned(TRUE)
    /\ dl.precheck = "equal"
    /\ remote.exists /\ dl.dest0.exists /\ dl.dest0.size = remote.size

C6_Original == DownloadOver => result.kind = "return"

\* C7 as stated (its part a finite run decides): download_file re-invokes
\* itself at most once in one call of the caller.
C7_Original == dl.depth <= 1

\* the download_file frames on the stack
DownloadFrames == {i \in 1..Len(stack) : stack[i].p = "download_file"}

\* C7 as amended: download_file re-invokes itself once for every time its
\* download_using_ftplib ended with socket.error, and for nothing else: the
\* number of re-invocations equals the number of those failures (it is not
\* bounded by one), and the invocations are nested in one another.
C7_RecursionPerSocketError ==
    /\ dl.depth = dl.socketErrors
    /\ Cardinality(DownloadFrames) <= dl.depth + 1
    /\ Cardinality(DownloadFrames) > 0 => dl.active

\* a download whose primary transport failed twice with socket.error is in
\* its third invocation
C7_Witness ==
    /\ dl.socketErrors = 2
    /\ Cardinality(DownloadFrames) = 3

\* C8 as stated: after a RETR raised socket.error, no later RETR of the same
\* download is sent on the handle that raised it.
C8_Original == ~dl.retrOnFatal

(***************************************************************************)
(* Claims about the cooldown.                                              *)
(***************************************************************************)
\* C9 as stated: with a cooldown configured, a network action starts at
\* least cooldown_seconds after the end of the network action before it.
C9_Original ==
    (self_cooldown_seconds # 0 /\ lastAct.kind # "none" /\ lastAct.prevEnd # 0) =>
        lastAct.start - lastAct.prevEnd >= self_cooldown_seconds

\* C10: with a cooldown configured, the timestamp left by the latest attempt
\* of _login is the time at which that attempt ended, whether it returned
\* or raised.
C10_LoginAlwaysStamps ==
    (self_cooldown_seconds # 0 /\ loginLog.n > 0) =>
        /\ loginLog.stamp = loginLog.end
        /\ self_cooldown_timestamp >= loginLog.end

\* with a cooldown configured, an attempt of _login was aborted by the
\* alarm after an earlier attempt
C10_Witness ==
    /\ self_cooldown_seconds # 0
    /\ loginLog.n >= 2
    /\ loginLog.exc.type = "TimeoutError"
    /\ loginLog.stamp = loginLog.end

\* an attempt of _list_contents has just ended: its frame returned, or let
\* an exception through, to the decorators
ListAttemptEnded == At("wrap", "ret") /\ Top.fn = "_list_contents"

\* the try statement around a transfer has just ended: the transport goes on
\* to check the temporary file, or the error of the transfer reached the
\* decorators
FetchAttemptEnded ==
    \E p \in {"download_using_ftplib", "download_using_urllib2"} :
        \/ At(p, "verify")
        \/ /\ At("wrap", "ret") /\ Top.fn = p
           /\ exc # NoExc
           /\ lastAct.kind \in {"RETR", "urlopen"}
           /\ lastAct.end = now

\* the part of C11 about the two transports: the try statement around a
\* transfer leaves the timestamp at the time it ended
FetchAlwaysStamps ==
    (self_cooldown_seconds # 0 /\ FetchAttemptEnded) => self_cooldown_timestamp = now

\* C11 as stated: with a cooldown configured, when an attempt of a listing
\* or a transfer of either transport has ended, however it ended, the
\* cooldown timestamp is the time at which it ended.
C11_Original ==
    (self_cooldown_seconds # 0 /\ (ListAttemptEnded \/ FetchAttemptEnded)) =>
        self_cooldown_timestamp = now

(***************************************************************************)
(* Claims about the deadline of the timeout decorator.                     *)
(***************************************************************************)
\* C12 as stated: on an instance constructed with timeout_seconds = 0, no
\* TimeoutError is ever raised in an operation.
C12_Original == self_timeout_seconds = 0 => exc.type # "TimeoutError"

\* the frames of the decorators on the stack
WrapFrames == {i \in 1..Len(stack) : stack[i].p = "wrap"}

\* the innermost decorated function in progress
InnermostWrap == CHOOSE i \in WrapFrames : \A j \in WrapFrames : j <= i

\* the innermost decorated function in progress was given a deadline, and
\* its body is running
DeadlineInForce ==
    /\ WrapFrames # {}
    /\ stack[InnermostWrap].pc = "ret"
    /\ stack[InnermostWrap].secs # 0

\* C13 as stated (what it implies while nothing has failed): while the body
\* of a function decorated with a deadline is running, and no decorated
\* function it called is still running, its alarm is armed.
C13_Original == (faults = 0 /\ exc = NoExc /\ DeadlineInForce) => alarm # 0

(***************************************************************************)
(* Claims about two instances in one process, checked under SpecTwo.       *)
(***************************************************************************)
\* C14 as stated: while the function of an instance runs under a deadline
\* that instance armed, the pending alarm is the one it armed, whatever the
\* other instance does; and a call ended by the alarm was ended by the alarm
\* its own instance armed.
C14_Original ==
    \A i \in Instances :
        /\ (instances[i].pc = "body" /\ instances[i].due # 0) =>
               process.alarm = instances[i].due
        /\ instances[i].last = "TimeoutError" => instances[i].armedBy = i

(***************************************************************************)
(* Claims about listings and the session, checked under Spec.              *)
(***************************************************************************)
\* a listing the caller started is over, and the caller is about to get its
\* value or its exception
ListingOver == At("caller", "wait") /\ Top.a = "list_contents"

\* C15 as stated: when a call of list_contents is over, however it ended,
\* the working directory of the session is the one it was when the call was
\* made.
C15_Original == ListingOver => wd = obs.wd0

\* C16 as stated: a listing called without a path lists the root path of the
\* address given to the constructor, and one called with a relative path
\* lists that path under the root path.
C16_Original ==
    (obs.arg \in {"none", "path"} /\ obs.listed # NoDir) =>
        obs.listed = IF obs.arg = "none" THEN RootPath ELSE Relative(RootPath)

\* C17 as stated (its part about what follows the re-login): a call of
\* list_contents that logged in again has, when it is over, called
\* _list_contents exactly once more.
C17_Original == (ListingOver /\ obs.relogin = 1) => obs.inv = 2

\* C17 as amended: a call of list_contents logs in again at most once, and
\* only after its first call of _list_contents; it calls _list_contents at
\* most once more, and only after that login; when it is over after a login
\* it has either made that second call or is raising what the login raised.
\* This does not depend on number_of_retries.
C17_BoundedListingRecovery ==
    /\ obs.relogin <= 1
    /\ obs.inv <= 1 + obs.relogin
    /\ (ListingOver /\ obs.relogin = 1) => (obs.inv = 2 \/ exc # NoExc)

\* on an instance that retries twice, a listing whose first call of
\* _list_contents raised socket.error logged in again, and its second call
\* raised socket.error too, which the caller gets
C17_Witness ==
    /\ ListingOver
    /\ self_number_of_retries = 2
    /\ obs.relogin = 1
    /\ obs.inv = 2
    /\ exc.type = "socket.error"

\* the frames of a self.setup() that was called while the handle had an open
\* socket: setup itself, and retry.inner around _setup
EnsuringConnected ==
    { i \in DOMAIN stack :
        /\ stack[i].a = "connected"
        /\ \/ stack[i].p = "setup"
           \/ stack[i].p = "wrap" /\ stack[i].fn = "_setup" }

\* C18 (as stated): while a setup() that found a live connection is running,
\* no step opens a connection and no login attempt is made
C18_Original ==
    [][EnsuringConnected # {} => (opened' = opened /\ loginLog'.n = loginLog.n)]_vars

\* close() called by the caller is over
CloseOver == At("caller", "wait") /\ Top.a = "close"

\* C19 (as stated): the instance has at most one open connection at any
\* time, and none once close() has returned
C19_Original ==
    /\ Cardinality(live) <= 1
    /\ CloseOver => live = {}

\* C20: close() never raises, whatever its quit step and its hard close step
\* do, and a call that made the quit step has made the hard close step when it
\* returns, also when the quit failed
C20_CloseNeverRaises ==
    /\ obs.close # "raised"
    /\ (obs.close = "returned" /\ obs.quit # "") => obs.hard # ""
    /\ CloseOver => exc = NoExc

\* close() returned to the caller after both of its steps failed
C20_Witness ==
    /\ CloseOver
    /\ obs.close = "returned"
    /\ obs.quit = "failed"
    /\ obs.hard = "failed"

\* C22 (as stated): when download_file is over and did not return True, no
\* file that one of its transports wrote is left at the temporary name
C22_Original ==
    (DownloadOver /\ ~DownloadReturned(TRUE)) => ~(tmp.exists /\ tmp.src \in {"url", "ftp"})

\* the invocations of download_file that are about to call
\* download_using_ftplib
AboutToUseFtplib ==
    { i \in DOMAIN stack : stack[i].p = "download_file" /\ stack[i].pc = "ftplib" }

\* C25: download_using_ftplib is called once for every call of
\* download_using_urllib2 that did not return True, whatever exception ended
\* it, and never otherwise, so that every call of it follows a call of
\* download_using_urllib2; and a download_file that found no file of the
\* remote size at the destination has called download_using_urllib2
C25_FallbackThenPrimary ==
    /\ dl.ftpInv + Cardinality(AboutToUseFtplib) = dl.urlFails
    /\ dl.urlFails <= dl.urlInv
    /\ dl.urlInv <= dl.urlFails + 1
    /\ (DownloadOver /\ dl.precheck \in {"none", "differs"}) => dl.urlInv >= 1

\* a download whose download_using_urllib2 ended with socket.error went on
\* to download_using_ftplib, which saved the file
C25_Witness ==
    /\ DownloadReturned(TRUE)
    /\ dl.urlExc = "socket.error"
    /\ dl.urlInv = 1
    /\ dl.ftpInv = 1

\* C26: setup calls the decorated _setup a second time exactly when the
\* first call ended with socket.error, after one sleep of 60 seconds, and
\* never a third time nor after a second sleep; a socket.error out of the
\* second call is what setup raises
C26_StartupGraceRetry ==
    /\ obs.setupCalls <= 2
    /\ obs.setupSleeps <= 1
    /\ obs.setupCalls = 2 <=> obs.setupFirst = "socket.error"
    /\ obs.setupCalls = 2 <=> obs.setupSleeps = 1
    /\ obs.setupSleeps = 1 => obs.setupSlept = SetupSleepSeconds

\* a constructor whose two calls of _setup both ended with socket.error,
\* which the caller got after one sleep of 60 seconds
C26_Witness ==
    /\ At("caller", "wait")
    /\ Top.a = "__init__"
    /\ obs.setupCalls = 2
    /\ obs.setupSlept = SetupSleepSeconds
    /\ exc.type = "socket.error"
    /\ now >= StartTime + SetupSleepSeconds

\* a decorated function is past its self._cooldown() and about to make its
\* request, with the alarm of its timeout decorator pending
PacedRequest ==
    /\ alarm # 0
    /\ \/ At("download_using_ftplib", "retr")
       \/ At("download_using_urllib2", "fetch")
       \/ At("_list_contents", "setup")

\* C30 (as stated): with a timeout and a cooldown configured, the request
\* that follows the cooldown sleep of a decorated function has at least
\* timeout_seconds left before the alarm is due
C30_Original ==
    (self_timeout_seconds > 0 /\ self_cooldown_seconds > 0 /\ PacedRequest) =>
        alarm - now >= self_timeout_seconds

\* C31: a download that failed leaves the destination untouched: when
\* download_file has returned False or has ended with an exception, the
\* destination path is as it was when download_file was called (absent, or
\* the same file with the same size and content).
C31_FailedDownloadKeepsDestination ==
    (DownloadOver /\ ~DownloadReturned(TRUE)) => dest = dl.dest0

\* download_file returned False over a destination that existed before: both
\* transports made their transfer, the last one left a file cut short under
\* the temporary name, and the destination is the file it was
C31_Witness ==
    /\ DownloadReturned(FALSE)
    /\ dl.dest0.exists
    /\ dl.urlCalls >= 1
    /\ dl.retrCalls >= 1
    /\ tmp.exists
    /\ tmp.src = "ftp"
    /\ dl.moved = 0
    /\ dest = dl.dest0

\* the latest attempt of _login ended with the server refusing the login
\* (ftplib.error_perm, an Exception that is not a socket.error)
LoginRefused ==
    /\ loginLog.exc.type = "Exception"
    /\ lastAct.kind = "login"
    /\ lastAct.end = loginLog.end

\* C23 (as stated): after the server refused the login, the retry loop
\* around _login does not go on: its counter stays at 1, so that there is no
\* further attempt and no RetryError in place of the refusal
C23_Original ==
    \A i \in DOMAIN stack :
        (stack[i].p = "wrap" /\ stack[i].fn = "_login" /\ LoginRefused) => stack[i].cnt = 1

(***************************************************************************)
(* Claims about FtpEntry and get_entries, checked under SpecParse.         *)
(***************************************************************************)
\* the entries of the lines of ls that get_entries selects and FtpEntry
\* parses, in order
ParsedEntries(ls) ==
    [i \in 1..Len(SelectSeq(ls, LAMBDA l : IsEntryLine(l) /\ FtpEntry(l).ok)) |->
        FtpEntry(SelectSeq(ls, LAMBDA l : IsEntryLine(l) /\ FtpEntry(l).ok)[i])]

\* C21 (as stated): get_entries does not fail, whatever lines the listing
\* has, and returns the entries of its well-formed file, directory and link
\* lines in order
C21_Original ==
    /\ parse_pc # "raised"
    /\ parse_pc = "returned" => entries = ParsedEntries(content_lines)

\* C27 (as stated): FtpEntry fails on every line with fewer than 9 words
C27_Original ==
    (parse_pc = "parsed" /\ Len(content_line.words) < 9) => ~entry.ok

\* C28 (as stated): on a line with at least 9 words, the name is all of the
\* line after its 8 leading words, and owner, group and size are the 3rd,
\* the 4th and the 5th word
C28_Original ==
    (parse_pc = "parsed" /\ Len(content_line.words) >= 9 /\ entry.ok) =>
        /\ entry.name = SubSeq(content_line.words, 9, Len(content_line.words))
        /\ entry.owner = content_line.words[3]
        /\ entry.group = content_line.words[4]
        /\ entry.size = Long(content_line.words[5])

(***************************************************************************)
(* Claims about the retry decorator, checked under SpecRetry.              *)
(***************************************************************************)
\* every invocation so far failed with an error that is not a socket.error
AllFailedNonFatal ==
    \A i \in 1..Len(attempts) :
        ~attempts[i].ok /\ attempts[i].exc.type # "socket.error"

\* C1: with number_of_retries = n >= 1 the function is never invoked more
\* than n times; a call in which every invocation failed with a non-fatal
\* error ends only after exactly n invocations, and ends with RetryError;
\* and RetryError is raised only after n failed invocations.
C1_RetryBudget ==
    number_of_retries >= 1 =>
        /\ Len(attempts) <= number_of_retries
        /\ (rpc = "done" /\ AllFailedNonFatal) =>
               /\ Len(attempts) = number_of_retries
               /\ outcome.kind = "raise"
               /\ outcome.exc.type = "RetryError"
        /\ (outcome.kind = "raise" /\ outcome.exc.type = "RetryError") =>
               /\ Len(attempts) = number_of_retries
               /\ AllFailedNonFatal

\* a call with number_of_retries = 3 whose three invocations all failed
C1_Witness ==
    /\ number_of_retries = 3
    /\ rpc = "done"
    /\ Len(attempts) = 3
    /\ AllFailedNonFatal
    /\ outcome.exc.type = "RetryError"

\* C2: an invocation that fails with socket.error is the last one of its
\* call: the call is over, the caller gets that very error, and no sleep
\* followed it (the sleeps made are those after the earlier failures).
C2_SocketErrorShortCircuit ==
    \A i \in 1..Len(attempts) :
        (~attempts[i].ok /\ attempts[i].exc.type = "socket.error") =>
            /\ i = Len(attempts)
            /\ rpc = "done"
            /\ outcome = Raised(attempts[i].exc)
            /\ Len(sleeps) = IF sleep_factor > 0 THEN i - 1 ELSE 0

\* the second invocation of a call with retries failed with socket.error
C2_Witness ==
    /\ number_of_retries >= 2
    /\ Len(attempts) = 2
    /\ attempts[2].exc.type = "socket.error"
    /\ rpc = "done"

C24_Original ==
    /\ \A k \in 1..Len(sleeps) :
          sleeps[k] = sleep_factor * k + sleep_factor * (k - 1) * 10
    /\ sleep_factor = 0 => sleeps = <<>>
    /\ (rpc = "done" /\ sleep_factor > 0 /\ ~NoRetry(number_of_retries)) =>
          Len(sleeps) = Len(attempts) - 1

\* C29: with number_of_retries = 0 a call invokes the function exactly once,
\* never sleeps, and ends as that invocation ended: with its value, or with
\* its own exception; and with any number_of_retries an invocation that
\* succeeded is the last one of its call, and the caller gets its value
C29_RunOnceAndStopOnSuccess ==
    /\ number_of_retries = 0 =>
          /\ Len(attempts) <= 1
          /\ sleeps = <<>>
          /\ rpc = "done" =>
                /\ Len(attempts) = 1
                /\ outcome = IF attempts[1].ok THEN Returned(attempts[1].val)
                                               ELSE Raised(attempts[1].exc)
    /\ \A i \in 1..Len(attempts) :
          attempts[i].ok =>
              /\ i = Len(attempts)
              /\ rpc = "done"
              /\ outcome = Returned(attempts[i].val)

\* a call with number_of_retries = 0 whose only invocation raised an
\* Exception, which the caller got
C29_Witness ==
    /\ number_of_retries = 0
    /\ rpc = "done"
    /\ Len(attempts) = 1
    /\ attempts[1].exc.type = "Exception"
    /\ outcome = Raised(attempts[1].exc)

====
